---- MODULE Spec2Model ----
(***************************************************************************)
(* Model of the Chrome Web Store validator component (StoreValidator):     *)
(* the two upload entry points (drag-and-drop, file picker), the           *)
(* asynchronous manifest read, validateForStore with its five checks, and  *)
(* calculateOverallScore.                                                  *)
(*                                                                         *)
(* JavaScript values are modelled as tagged records [t, v]; strings are    *)
(* sequences of one-character strings, so that length, suffix and          *)
(* substring tests are computed and not assumed.  Numbers of the model are *)
(* non-negative integers, and no object of the model has a member named    *)
(* "length" or a method of its own.                                        *)
(*                                                                         *)
(* Scheduling: manifestFile.text() settles in a later task, so the reads   *)
(* of several uploads may settle in any order.  The awaits inside          *)
(* validateForStore wait on promises that are already settled; their       *)
(* continuations are microtasks, which all run before the next event is    *)
(* dispatched.  The model shows each continuation as a step of its own and *)
(* lets no handler run between two of them.                                *)
(*                                                                         *)
(* Not modelled: dragActive and handleDrag, rendering, a rejected          *)
(* manifestFile.text().                                                    *)
(*                                                                         *)
(* Three specifications share the actions:                                 *)
(*   Spec       sessions of up to MaxUploads uploads of SessionUploads;    *)
(*   SpecWide   one upload, over every input of WideUploads;               *)
(*   SpecScore  the report step over every findings list of up to          *)
(*              MaxFindings findings.                                      *)
(***************************************************************************)
EXTENDS Integers, Sequences, FiniteSets

(***************************************************************************)
(* The component's state                                                   *)
(***************************************************************************)
VARIABLES
  validationResults,  \* useState<StoreValidationResult[]>([])
  isValidating,       \* useState(false)
  progress,           \* useState(0)
  extensionData,      \* useState<ExtensionMetadata | null>(null)
  overallScore,       \* useState(0)
  toasts,             \* the toasts shown so far, oldest first
  reads,              \* the manifestFile.text() promises not yet settled
  run,                \* the validateForStore invocation in progress
  uploads,            \* history: uploads submitted so far
  runsStarted,        \* history: validateForStore invocations so far
  publishedRun,       \* history: the invocation that set validationResults
  acqFailures,        \* history: uploads whose manifest could not be acquired
  reports,            \* history: (manifest, files, findings, score) published
  startOrder          \* history: the uploads whose runs started, in that order

vars == <<validationResults, isValidating, progress, extensionData, overallScore,
          toasts, reads, run, uploads, runsStarted, publishedRun, acqFailures,
          reports, startOrder>>

(***************************************************************************)
(* JavaScript / JSON values                                                *)
(***************************************************************************)
Undef == [t |-> "undef", v |-> <<>>]
Null == [t |-> "null", v |-> <<>>]
Str(s) == [t |-> "str", v |-> s]
Num(n) == [t |-> "num", v |-> n]
Bool(b) == [t |-> "bool", v |-> b]
Arr(a) == [t |-> "arr", v |-> a]
Obj(pairs) == [t |-> "obj", v |-> pairs]

\* ToBoolean
Truthy(x) ==
  CASE x.t = "undef" -> FALSE
    [] x.t = "null" -> FALSE
    [] x.t = "str" -> Len(x.v) > 0
    [] x.t = "num" -> x.v # 0
    [] x.t = "bool" -> x.v
    [] OTHER -> TRUE

\* x === y for the values of the model (no two arrays or objects of a
\* decoded document are the same reference)
StrictEq(x, y) ==
  /\ x.t = y.t
  /\ x.t \notin {"arr", "obj"}
  /\ x.v = y.v

\* obj[key] for a string key that is no array index and no built-in property
Get(obj, key) ==
  IF obj.t = "obj" /\ \E i \in 1..Len(obj.v) : obj.v[i][1] = key
  THEN obj.v[CHOOSE i \in 1..Len(obj.v) : obj.v[i][1] = key][2]
  ELSE Undef

\* property access on null or undefined raises a TypeError
Nullish(x) == x.t \in {"undef", "null"}

\* x.length: defined for strings and arrays only
HasLength(x) == x.t \in {"str", "arr"}
Length(x) == Len(x.v)

(***************************************************************************)
(* String helpers (String.prototype.endsWith / includes / toLowerCase)     *)
(***************************************************************************)
EndsWith(s, suffix) ==
  /\ Len(suffix) <= Len(s)
  /\ SubSeq(s, Len(s) - Len(suffix) + 1, Len(s)) = suffix

Includes(s, part) ==
  \E i \in 1..(Len(s) - Len(part) + 1) : SubSeq(s, i, i + Len(part) - 1) = part

LowerChar(c) ==
  CASE c = "A" -> "a" [] c = "B" -> "b" [] c = "C" -> "c" [] c = "D" -> "d"
    [] c = "E" -> "e" [] c = "F" -> "f" [] c = "G" -> "g" [] c = "H" -> "h"
    [] c = "I" -> "i" [] c = "J" -> "j" [] c = "K" -> "k" [] c = "L" -> "l"
    [] c = "M" -> "m" [] c = "N" -> "n" [] c = "O" -> "o" [] c = "P" -> "p"
    [] c = "Q" -> "q" [] c = "R" -> "r" [] c = "S" -> "s" [] c = "T" -> "t"
    [] c = "U" -> "u" [] c = "V" -> "v" [] c = "W" -> "w" [] c = "X" -> "x"
    [] c = "Y" -> "y" [] c = "Z" -> "z" [] OTHER -> c

ToLowerCase(s) == [i \in 1..Len(s) |-> LowerChar(s[i])]

Digits == <<"0", "1", "2", "3", "4", "5", "6", "7", "8", "9">>
IsDigit(c) == \E i \in 1..10 : Digits[i] = c

RECURSIVE NatToString(_)
NatToString(n) ==
  IF n < 10 THEN <<Digits[n + 1]>>
  ELSE NatToString(n \div 10) \o <<Digits[(n % 10) + 1]>>

RECURSIVE JoinWith(_, _)
RECURSIVE ToStr(_)
\* String(x) as template literals, join, endsWith and RegExp.test coerce it
ToStr(x) ==
  CASE x.t = "str" -> x.v
    [] x.t = "num" -> NatToString(x.v)
    [] x.t = "bool" -> IF x.v THEN <<"t", "r", "u", "e">> ELSE <<"f", "a", "l", "s", "e">>
    [] x.t = "null" -> <<"n", "u", "l", "l">>
    [] x.t = "undef" -> <<"u", "n", "d", "e", "f", "i", "n", "e", "d">>
    [] x.t = "arr" -> JoinWith(x.v, <<",">>)
    [] OTHER -> <<"[", "o", "b", "j", "e", "c", "t", " ", "O", "b", "j", "e", "c", "t", "]">>

\* Array.prototype.join: null and undefined elements become the empty string
JoinWith(a, sep) ==
  IF Len(a) = 0 THEN <<>>
  ELSE LET first == IF Nullish(a[1]) THEN <<>> ELSE ToStr(a[1])
       IN IF Len(a) = 1 THEN first ELSE first \o sep \o JoinWith(Tail(a), sep)

(***************************************************************************)
(* STORE_REQUIREMENTS, the rulebook                                        *)
(***************************************************************************)
\* faulty variant: "icons" is a required field as well
required_fields_with_icons ==
  <<"name", "version", "description", "manifest_version", "icons">>

\* faulty variant: "description" left out of the list
required_fields_without_description == <<"name", "version", "manifest_version">>

required_fields == <<"name", "version", "description", "manifest_version">>
name_length_min == 3
name_length_max == 45
description_length_min == 10
description_length_max == 132

\* /^\d+(\.\d+)*$/ : digit groups separated by single dots
version_format_test(s) ==
  /\ Len(s) > 0
  /\ \A i \in 1..Len(s) : IsDigit(s[i]) \/ s[i] = "."
  /\ IsDigit(s[1])
  /\ IsDigit(s[Len(s)])
  /\ \A i \in 1..(Len(s) - 1) : ~(s[i] = "." /\ s[i + 1] = ".")

required_sizes == <<16, 48, 128>>
recommended_sizes == <<19, 38, 32, 64, 96>>
max_file_size == 2 * 1024 * 1024

dangerous ==
  << <<"<", "a", "l", "l", "_", "u", "r", "l", "s", ">">>,
     <<"h", "t", "t", "p", ":", "/", "/", "*", "/", "*">>,
     <<"h", "t", "t", "p", "s", ":", "/", "/", "*", "/", "*">>,
     <<"t", "a", "b", "s">>,
     <<"h", "i", "s", "t", "o", "r", "y">>,
     <<"b", "o", "o", "k", "m", "a", "r", "k", "s">> >>

max_package_size == 128 * 1024 * 1024

prohibited_content ==
  << <<"c", "r", "y", "p", "t", "o", "c", "u", "r", "r", "e", "n", "c", "y">>,
     <<"m", "i", "n", "i", "n", "g">>,
     <<"a", "d", "u", "l", "t">>,
     <<"v", "i", "o", "l", "e", "n", "c", "e">> >>

data_collection_apis ==
  << <<"i", "d", "e", "n", "t", "i", "t", "y">>,
     <<"c", "o", "o", "k", "i", "e", "s">>,
     <<"h", "i", "s", "t", "o", "r", "y">>,
     <<"t", "a", "b", "s">> >>

\* Array.prototype.includes of a rulebook list of strings
ListIncludes(list, x) == \E i \in 1..Len(list) : StrictEq(Str(list[i]), x)

(***************************************************************************)
(* Findings (StoreValidationResult).  title is the fixed part of the       *)
(* title, arg the text interpolated into title or message (a tuple of      *)
(* strings; the empty tuple when nothing is interpolated).                 *)
(***************************************************************************)
Finding(category, type, severity, title, arg) ==
  [category |-> category, type |-> type, severity |-> severity,
   title |-> title, arg |-> arg]

\* the outcome of one check: the findings list as the check left it, and
\* whether the check raised an exception
Done(results) == [threw |-> FALSE, results |-> results]
Thrown(results) == [threw |-> TRUE, results |-> results]

\* (bytes / 1024 / 1024).toFixed(1), in tenths of a MiB
MiB == 1024 * 1024
ToFixed1MB(bytes) ==
  ((bytes \div MiB) * 10) + ((20 * (bytes % MiB) + MiB) \div (2 * MiB))

(***************************************************************************)
(* validateManifestRequirements                                            *)
(***************************************************************************)
\* for (const field of required_fields) if (!manifest[field]) results.push(..)
RECURSIVE MissingFields(_, _)
MissingFields(manifest, i) ==
  IF i > Len(required_fields) THEN <<>>
  ELSE (IF ~Truthy(Get(manifest, required_fields[i]))
        THEN <<Finding("manifest", "error", "critical", "Missing", <<required_fields[i]>>)>>
        ELSE <<>>) \o MissingFields(manifest, i + 1)

NameLengthFindings(manifest) ==
  LET name == Get(manifest, "name")
  IN IF ~Truthy(name) \/ ~HasLength(name) THEN <<>>
     ELSE IF Length(name) < name_length_min
          THEN <<Finding("manifest", "error", "high", "Name too short", <<>>)>>
     ELSE IF Length(name) > name_length_max
          THEN <<Finding("manifest", "error", "high", "Name too long", <<>>)>>
     ELSE <<>>

DescriptionLengthFindings(manifest) ==
  LET description == Get(manifest, "description")
  IN IF ~Truthy(description) \/ ~HasLength(description) THEN <<>>
     ELSE IF Length(description) < description_length_min
          THEN <<Finding("manifest", "error", "high", "Description too short", <<>>)>>
     ELSE IF Length(description) > description_length_max
          THEN <<Finding("manifest", "warning", "medium", "Description too long", <<>>)>>
     ELSE <<>>

VersionFormatFindings(manifest) ==
  LET version == Get(manifest, "version")
  IN IF Truthy(version) /\ ~version_format_test(ToStr(version))
     THEN <<Finding("manifest", "error", "high", "Invalid version format", <<>>)>>
     ELSE <<>>

ManifestVersionFindings(manifest) ==
  IF StrictEq(Get(manifest, "manifest_version"), Num(2))
  THEN <<Finding("manifest", "warning", "high", "Manifest V2 deprecation", <<>>)>>
  ELSE <<>>

validateManifestRequirements(manifest, results) ==
  IF Nullish(manifest) THEN Thrown(results)
  ELSE Done(results \o MissingFields(manifest, 1)
                    \o NameLengthFindings(manifest)
                    \o DescriptionLengthFindings(manifest)
                    \o VersionFormatFindings(manifest)
                    \o ManifestVersionFindings(manifest))

(***************************************************************************)
(* validateIconRequirements                                                *)
(***************************************************************************)
\* the property keys of the model that are array indices, with their values
IndexKeys == {"16", "19", "32", "38", "48", "64", "96", "128"}
KeyValue(k) ==
  CASE k = "16" -> 16 [] k = "19" -> 19 [] k = "32" -> 32 [] k = "38" -> 38
    [] k = "48" -> 48 [] k = "64" -> 64 [] k = "96" -> 96 [] k = "128" -> 128
    [] OTHER -> 0
SizeKey(size) == CHOOSE k \in IndexKeys : KeyValue(k) = size

\* icons[size.toString()]: a property of an object, an element of an array, a
\* character of a string, undefined on a number or a boolean
IndexGet(icons, size) ==
  CASE icons.t = "obj" -> Get(icons, SizeKey(size))
    [] icons.t = "arr" -> IF size < Len(icons.v) THEN icons.v[size + 1] ELSE Undef
    [] icons.t = "str" -> IF size < Len(icons.v) THEN Str(<<icons.v[size + 1]>>) ELSE Undef
    [] OTHER -> Undef

RECURSIVE MissingSizes(_, _, _, _, _, _)
MissingSizes(icons, sizes, i, type, severity, title) ==
  IF i > Len(sizes) THEN <<>>
  ELSE (IF ~Truthy(IndexGet(icons, sizes[i]))
        THEN <<Finding("icons", type, severity, title, <<SizeKey(sizes[i])>>)>>
        ELSE <<>>) \o MissingSizes(icons, sizes, i + 1, type, severity, title)

\* the values of Object.entries(icons): integer keys in ascending order first,
\* then the other keys in insertion order
RECURSIVE IndexEntries(_, _)
IndexEntries(pairs, done) ==
  LET left == {i \in 1..Len(pairs) : pairs[i][1] \in IndexKeys /\ i \notin done}
  IN IF left = {} THEN <<>>
     ELSE LET m == CHOOSE i \in left :
                     \A j \in left : KeyValue(pairs[i][1]) <= KeyValue(pairs[j][1])
          IN <<pairs[m][2]>> \o IndexEntries(pairs, done \cup {m})

RECURSIVE OtherEntries(_, _)
OtherEntries(pairs, i) ==
  IF i > Len(pairs) THEN <<>>
  ELSE (IF pairs[i][1] \in IndexKeys THEN <<>> ELSE <<pairs[i][2]>>)
       \o OtherEntries(pairs, i + 1)

EntryValues(icons) ==
  CASE icons.t = "obj" -> IndexEntries(icons.v, {}) \o OtherEntries(icons.v, 1)
    [] icons.t = "arr" -> icons.v
    [] icons.t = "str" -> [i \in 1..Len(icons.v) |-> Str(<<icons.v[i]>>)]
    [] OTHER -> <<>>

\* faulty variant: only a file with exactly the declared path matches
FileMatchesExactly(f, iconPath) == StrictEq(Str(f.name), iconPath)

\* files.find((f) => f.name === iconPath || f.name.endsWith(iconPath)):
\* the index of the first matching file, 0 when there is none
FileMatches(f, iconPath) ==
  \/ StrictEq(Str(f.name), iconPath)
  \/ EndsWith(f.name, ToStr(iconPath))

FindIconFile(files, iconPath) ==
  IF \E i \in 1..Len(files) : FileMatches(files[i], iconPath)
  THEN CHOOSE i \in 1..Len(files) :
         /\ FileMatches(files[i], iconPath)
         /\ \A j \in 1..(i - 1) : ~FileMatches(files[j], iconPath)
  ELSE 0

RECURSIVE IconFileFindings(_, _, _)
IconFileFindings(paths, files, i) ==
  IF i > Len(paths) THEN <<>>
  ELSE LET k == FindIconFile(files, paths[i])
       IN (IF k = 0
           THEN <<Finding("icons", "error", "high", "Icon file not found", ToStr(paths[i]))>>
           ELSE IF files[k].size > max_file_size
           THEN <<Finding("icons", "warning", "medium", "Large icon file",
                          ToStr(paths[i]) \o <<" ">> \o NatToString(ToFixed1MB(files[k].size)))>>
           ELSE <<>>) \o IconFileFindings(paths, files, i + 1)

\* faulty variant: without the early return the size loop reads a property
\* of undefined
validateIconRequirementsNoReturn(manifest, files, results) ==
  IF Nullish(manifest) THEN Thrown(results)
  ELSE LET icons == Get(manifest, "icons")
       IN IF ~Truthy(icons)
          THEN [threw |-> Nullish(icons),
                results |-> Append(results,
                  Finding("icons", "error", "critical", "No icons specified", <<>>))]
          ELSE Done(results
                 \o MissingSizes(icons, required_sizes, 1, "error", "high", "Missing icon")
                 \o MissingSizes(icons, recommended_sizes, 1, "info", "low",
                                 "Recommended icon missing")
                 \o IconFileFindings(EntryValues(icons), files, 1))

\* faulty variant: the early return starts the findings list afresh
validateIconRequirementsReplacing(manifest, files, results) ==
  IF Nullish(manifest) THEN Thrown(results)
  ELSE LET icons == Get(manifest, "icons")
       IN IF ~Truthy(icons)
          THEN Done(<<Finding("icons", "error", "critical", "No icons specified", <<>>)>>)
          ELSE Done(results
                 \o MissingSizes(icons, required_sizes, 1, "error", "high", "Missing icon")
                 \o MissingSizes(icons, recommended_sizes, 1, "info", "low",
                                 "Recommended icon missing")
                 \o IconFileFindings(EntryValues(icons), files, 1))

validateIconRequirements(manifest, files, results) ==
  IF Nullish(manifest) THEN Thrown(results)
  ELSE LET icons == Get(manifest, "icons")
       IN IF ~Truthy(icons)
          THEN Done(Append(results,
                 Finding("icons", "error", "critical", "No icons specified", <<>>)))
          ELSE Done(results
                 \o MissingSizes(icons, required_sizes, 1, "error", "high", "Missing icon")
                 \o MissingSizes(icons, recommended_sizes, 1, "info", "low",
                                 "Recommended icon missing")
                 \o IconFileFindings(EntryValues(icons), files, 1))

(***************************************************************************)
(* validatePermissionRequirements                                          *)
(***************************************************************************)
\* the elements a for..of loop visits; only arrays and strings are iterable
Iterable(x) == x.t \in {"arr", "str"}
Elements(x) ==
  IF x.t = "arr" THEN x.v ELSE [i \in 1..Len(x.v) |-> Str(<<x.v[i]>>)]

RECURSIVE DangerousFindings(_, _)
DangerousFindings(perms, i) ==
  IF i > Len(perms) THEN <<>>
  ELSE (IF ListIncludes(dangerous, perms[i])
        THEN <<Finding("permissions", "warning", "high", "Broad permission", ToStr(perms[i]))>>
        ELSE <<>>) \o DangerousFindings(perms, i + 1)

HostPattern == <<":", "/", "/">>

\* p.includes("://"): String.prototype.includes or Array.prototype.includes;
\* any other value has no includes method
HasIncludes(p) == p.t \in {"str", "arr"}
IncludesHostPattern(p) ==
  IF p.t = "str" THEN Includes(p.v, HostPattern)
  ELSE \E i \in 1..Len(p.v) : StrictEq(p.v[i], Str(HostPattern))

\* faulty variant: only the first permission is looked at
SomeHostPatternFirstOnly(perms, i) ==
  IF i > Len(perms) THEN "false"
  ELSE IF ~HasIncludes(perms[i]) THEN "throw"
  ELSE IF IncludesHostPattern(perms[i]) THEN "true"
  ELSE "false"

\* permissions.some((p) => p.includes("://")): "true", "false" or "throw";
\* some stops at the first element for which the callback returns true
RECURSIVE SomeHostPattern(_, _)
SomeHostPattern(perms, i) ==
  IF i > Len(perms) THEN "false"
  ELSE IF ~HasIncludes(perms[i]) THEN "throw"
  ELSE IF IncludesHostPattern(perms[i]) THEN "true"
  ELSE SomeHostPattern(perms, i + 1)

validatePermissionRequirements(manifest, results) ==
  IF Nullish(manifest) THEN Thrown(results)
  ELSE LET permissions == Get(manifest, "permissions")
       IN IF ~Truthy(permissions) THEN Done(results)
          ELSE IF ~Iterable(permissions) THEN Thrown(results)
          ELSE LET r1 == results \o DangerousFindings(Elements(permissions), 1)
                   r2 == IF Length(permissions) > 10
                         THEN Append(r1, Finding("permissions", "warning", "medium",
                                "Many permissions requested",
                                NatToString(Length(permissions))))
                         ELSE r1
               IN IF ~StrictEq(Get(manifest, "manifest_version"), Num(3)) THEN Done(r2)
                  ELSE IF permissions.t # "arr" THEN Thrown(r2)
                  ELSE LET some == SomeHostPattern(permissions.v, 1)
                       IN IF some = "throw" THEN Thrown(r2)
                          ELSE IF some = "true"
                          THEN Done(Append(r2, Finding("permissions", "error", "high",
                                 "Host permissions in wrong field", <<>>)))
                          ELSE Done(r2)

(***************************************************************************)
(* validatePrivacyRequirements                                             *)
(***************************************************************************)
Identity == <<"i", "d", "e", "n", "t", "i", "t", "y">>
Cookies == <<"c", "o", "o", "k", "i", "e", "s">>

\* permissions?.some((p) => data_collection_apis.includes(p)) for an array
CollectsData(permissions) ==
  \E i \in 1..Len(permissions.v) : ListIncludes(data_collection_apis, permissions.v[i])

\* permissions?.includes(x) for an array
ArrayIncludes(permissions, x) ==
  \E i \in 1..Len(permissions.v) : StrictEq(permissions.v[i], Str(x))

\* faulty variant: the policy is not consulted
PrivacyFindingsIgnoringPolicy(manifest, permissions) ==
  (IF CollectsData(permissions)
   THEN <<Finding("privacy", "error", "critical", "Privacy policy required", <<>>)>>
   ELSE <<>>)
  \o (IF ArrayIncludes(permissions, Identity)
      THEN <<Finding("privacy", "info", "medium", "Identity permission detected", <<>>)>>
      ELSE <<>>)
  \o (IF ArrayIncludes(permissions, Cookies)
      THEN <<Finding("privacy", "info", "medium", "Cookie access detected", <<>>)>>
      ELSE <<>>)

\* the three pushes of the check, for an array of permissions
PrivacyFindings(manifest, permissions) ==
  (IF CollectsData(permissions) /\ ~Truthy(Get(manifest, "privacy_policy"))
   THEN <<Finding("privacy", "error", "critical", "Privacy policy required", <<>>)>>
   ELSE <<>>)
  \o (IF ArrayIncludes(permissions, Identity)
      THEN <<Finding("privacy", "info", "medium", "Identity permission detected", <<>>)>>
      ELSE <<>>)
  \o (IF ArrayIncludes(permissions, Cookies)
      THEN <<Finding("privacy", "info", "medium", "Cookie access detected", <<>>)>>
      ELSE <<>>)

\* faulty variant: unshift instead of push
validatePrivacyRequirementsUnshift(manifest, results) ==
  IF Nullish(manifest) THEN Thrown(results)
  ELSE LET permissions == Get(manifest, "permissions")
       IN IF Nullish(permissions) THEN Done(results)
          ELSE IF permissions.t # "arr" THEN Thrown(results)
          ELSE Done(PrivacyFindings(manifest, permissions) \o results)

validatePrivacyRequirements(manifest, results) ==
  IF Nullish(manifest) THEN Thrown(results)
  ELSE LET permissions == Get(manifest, "permissions")
       IN IF Nullish(permissions) THEN Done(results)
          ELSE IF permissions.t # "arr" THEN Thrown(results)
          ELSE Done(results \o PrivacyFindings(manifest, permissions))

(***************************************************************************)
(* validateContentPolicies                                                 *)
(***************************************************************************)
\* files.reduce((sum, file) => sum + file.size, 0)
RECURSIVE TotalSize(_, _)
TotalSize(files, i) ==
  IF i > Len(files) THEN 0 ELSE files[i].size + TotalSize(files, i + 1)

\* faulty variant: the limit itself already counts as too large
PackageSizeFindingsAtLimit(files) ==
  IF TotalSize(files, 1) >= max_package_size
  THEN <<Finding("content", "error", "high", "Package too large",
                 NatToString(ToFixed1MB(TotalSize(files, 1))))>>
  ELSE <<>>

PackageSizeFindings(files) ==
  IF TotalSize(files, 1) > max_package_size
  THEN <<Finding("content", "error", "high", "Package too large",
                 NatToString(ToFixed1MB(TotalSize(files, 1))))>>
  ELSE <<>>

\* faulty variant: the text is searched as written, capitals included
TextContentAsWritten(manifest) ==
  JoinWith(<<Get(manifest, "name"), Get(manifest, "description")>>, <<" ">>)

\* [manifest.name, manifest.description].join(" ").toLowerCase()
TextContent(manifest) ==
  ToLowerCase(JoinWith(<<Get(manifest, "name"), Get(manifest, "description")>>, <<" ">>))

RECURSIVE ProhibitedFindings(_, _)
ProhibitedFindings(text, i) ==
  IF i > Len(prohibited_content) THEN <<>>
  ELSE (IF Includes(text, prohibited_content[i])
        THEN <<Finding("content", "warning", "high", "Potentially prohibited content",
                       prohibited_content[i])>>
        ELSE <<>>) \o ProhibitedFindings(text, i + 1)

\* manifest.content_scripts?.length > 0
HasContentScripts(manifest) ==
  LET cs == Get(manifest, "content_scripts")
  IN HasLength(cs) /\ Length(cs) > 0

\* faulty variant: action and browser_action count one each
PurposeCountSeparateActions(manifest) ==
  (IF HasContentScripts(manifest) THEN 1 ELSE 0)
  + (IF Truthy(Get(manifest, "background")) THEN 1 ELSE 0)
  + (IF Truthy(Get(manifest, "action")) THEN 1 ELSE 0)
  + (IF Truthy(Get(manifest, "browser_action")) THEN 1 ELSE 0)
  + (IF Truthy(Get(manifest, "options_page")) THEN 1 ELSE 0)

PurposeCount(manifest) ==
  (IF HasContentScripts(manifest) THEN 1 ELSE 0)
  + (IF Truthy(Get(manifest, "background")) THEN 1 ELSE 0)
  + (IF Truthy(Get(manifest, "action")) \/ Truthy(Get(manifest, "browser_action"))
     THEN 1 ELSE 0)
  + (IF Truthy(Get(manifest, "options_page")) THEN 1 ELSE 0)

validateContentPolicies(manifest, files, results) ==
  LET r1 == results \o PackageSizeFindings(files)
  IN IF Nullish(manifest) THEN Thrown(r1)
     ELSE Done(r1
            \o ProhibitedFindings(TextContent(manifest), 1)
            \o (IF PurposeCount(manifest) > 2
                THEN <<Finding("content", "info", "low",
                               "Multiple functionalities detected", <<>>)>>
                ELSE <<>>))

(***************************************************************************)
(* calculateOverallScore                                                   *)
(***************************************************************************)
\* faulty variant: critical weighted as high
WeightCriticalAsHigh(severity) ==
  CASE severity = "critical" -> -15
    [] severity = "high" -> -15
    [] severity = "medium" -> -10
    [] severity = "low" -> -5
    [] OTHER -> 0

\* faulty variant: low findings cost nothing
WeightLowFree(severity) ==
  CASE severity = "critical" -> -25
    [] severity = "high" -> -15
    [] severity = "medium" -> -10
    [] OTHER -> 0

\* weights[result.severity] || 0
Weight(severity) ==
  CASE severity = "critical" -> -25
    [] severity = "high" -> -15
    [] severity = "medium" -> -10
    [] severity = "low" -> -5
    [] OTHER -> 0

\* results.reduce((sum, result) => sum + (weights[result.severity] || 0), 0)
RECURSIVE Penalties(_, _)
Penalties(results, i) ==
  IF i > Len(results) THEN 0
  ELSE Weight(results[i].severity) + Penalties(results, i + 1)

Max(a, b) == IF a >= b THEN a ELSE b
Min(a, b) == IF a <= b THEN a ELSE b

\* faulty variant: no lower clamp
calculateOverallScoreNoFloor(results) ==
  Min(100, 100 + Penalties(results, 1))

\* faulty variant: the penalties are added to the score already published
calculateOverallScoreStateful(results) ==
  Max(0, Min(100, overallScore + Penalties(results, 1)))

\* the value passed to setOverallScore
calculateOverallScore(results) ==
  Max(0, Min(100, 100 + Penalties(results, 1)))

(***************************************************************************)
(* The initial state and the helpers of the handlers                       *)
(***************************************************************************)
\* JSON.parse(content) raised a SyntaxError
SyntaxErr == [t |-> "syntaxerror", v |-> <<>>]

ManifestJson == <<"m", "a", "n", "i", "f", "e", "s", "t", ".", "j", "s", "o", "n">>

\* files.find((f) => f.name === "manifest.json") found a file
HasManifestFile(files) == \E i \in 1..Len(files) : files[i].name = ManifestJson

Idle == [pc |-> "idle", manifest |-> Undef, files |-> <<>>, results |-> <<>>,
         threw |-> FALSE]

Toast(title, variant, criticalIssues, errors) ==
  [title |-> title, variant |-> variant, criticalIssues |-> criticalIssues,
   errors |-> errors]

\* results.filter((r) => r.severity === "critical").length
CountSeverity(results, severity) ==
  Cardinality({i \in 1..Len(results) : results[i].severity = severity})
\* results.filter((r) => r.type === "error").length
CountType(results, type) ==
  Cardinality({i \in 1..Len(results) : results[i].type = type})

Init ==
  /\ validationResults = <<>>
  /\ isValidating = FALSE
  /\ progress = 0
  /\ extensionData = Null
  /\ overallScore = 0
  /\ toasts = <<>>
  /\ reads = {}
  /\ run = Idle
  /\ uploads = 0
  /\ runsStarted = 0
  /\ publishedRun = 0
  /\ acqFailures = 0
  /\ reports = {}
  /\ startOrder = <<>>

(***************************************************************************)
(* Inputs: manifests as JSON.parse returns them, and file lists            *)
(***************************************************************************)
MaxUploads == 2
MaxFindings == 6

NameOk == Str(<<"T", "a", "b", " ", "T", "o", "o", "l">>)
VersionOk == Str(<<"1", ".", "0", ".", "0">>)
VersionBad == Str(<<"1", ".", "0", ".", "0", "a">>)
DescriptionOk == Str(<<"M", "a", "n", "a", "g", "e", "s", " ", "y", "o", "u", "r", " ", "t", "a", "b", "s">>)
PolicyUrl == Str(<<"h", "t", "t", "p", "s", ":", "/", "/", "x", ".", "i", "o", "/", "p">>)
Icon128Path == <<"i", "c", "o", "n", "1", "2", "8", ".", "p", "n", "g">>
Icon16Path == <<"i", "c", "o", "n", "1", "6", ".", "p", "n", "g">>
Tabs == Str(<<"t", "a", "b", "s">>)
Storage == Str(<<"s", "t", "o", "r", "a", "g", "e">>)
HttpsAll == Str(<<"h", "t", "t", "p", "s", ":", "/", "/", "*", "/", "*">>)

File(name, size) == [name |-> name, size |-> size]

\* one member of a JSON object, left out when the value is undefined
Field(key, value) == IF value = Undef THEN <<>> ELSE << <<key, value>> >>

MakeManifest(name, version, description, mv, icons, permissions, policy, more) ==
  Obj(Field("name", name) \o Field("version", version)
      \o Field("description", description) \o Field("manifest_version", mv)
      \o Field("icons", icons) \o Field("permissions", permissions)
      \o Field("privacy_policy", policy) \o more)

\* the keys are written "128" first: Object.entries returns "16" first
IconsTwo == Obj(<< <<"128", Str(Icon128Path)>>, <<"16", Str(Icon16Path)>> >>)

ThreePurposes ==
  << <<"background", Obj(<<>>)>>, <<"action", Obj(<<>>)>>,
     <<"options_page", Str(<<"o", ".", "h", "t", "m", "l">>)>> >>

NameOpts == {Undef, Str(<<>>), NameOk}
VersionOpts == {Undef, VersionOk, VersionBad}
DescriptionOpts == {Undef, DescriptionOk}
ManifestVersionOpts == {Undef, Num(2), Num(3)}
IconsOpts == {Undef, IconsTwo}
PermissionsOpts ==
  {Undef, Arr(<<Tabs>>), Arr(<<Str(Cookies), Str(Identity), HttpsAll>>), Arr(<<Storage>>)}
PolicyOpts == {Undef, PolicyUrl}
MoreOpts == {<<>>, ThreePurposes}

WellFormedManifests ==
  {MakeManifest(n, v, d, mv, ic, pe, po, mo) :
     n \in NameOpts, v \in VersionOpts, d \in DescriptionOpts,
     mv \in ManifestVersionOpts, ic \in IconsOpts, pe \in PermissionsOpts,
     po \in PolicyOpts, mo \in MoreOpts}

\* documents JSON.parse accepts whose fields are not of the declared types
OddManifests ==
  {Null, Num(5),
   MakeManifest(NameOk, VersionOk, DescriptionOk, Num(2), IconsTwo, Tabs, Undef, <<>>),
   MakeManifest(NameOk, VersionOk, DescriptionOk, Num(3), IconsTwo, Tabs, Undef, <<>>),
   MakeManifest(NameOk, VersionOk, DescriptionOk, Num(3), IconsTwo, Num(5), Undef, <<>>),
   MakeManifest(NameOk, VersionOk, DescriptionOk, Num(3), IconsTwo, Str(<<>>), Undef, <<>>),
   MakeManifest(NameOk, VersionOk, DescriptionOk, Num(3), IconsTwo, Arr(<<Num(5)>>),
                Undef, <<>>),
   MakeManifest(NameOk, VersionOk, DescriptionOk, Num(3), IconsTwo,
                Arr(<<HttpsAll, Num(5)>>), Undef, <<>>)}

FilesSmall ==
  <<File(ManifestJson, 400), File(Icon128Path, 2000),
    File(<<"i", "m", "g", "/">> \o Icon16Path, 900)>>
FilesBig ==
  <<File(ManifestJson, 400), File(Icon128Path, 3 * MiB),
    File(<<"b", ".", "j", "s">>, 130 * MiB)>>
FilesNoManifest == <<File(Icon128Path, 2000)>>

Upload(files, manifest) == [files |-> files, manifest |-> manifest]

GoodManifest ==
  MakeManifest(NameOk, VersionOk, DescriptionOk, Num(3), IconsTwo, Undef, Undef, <<>>)

\* versions around the pattern: empty, one group, a leading, trailing or
\* doubled dot, several digits, a letter
VersionSliceOpts ==
  {Str(<<>>), Str(<<"1">>), Str(<<"1", ".">>), Str(<<".", "1">>),
   Str(<<"1", ".", ".", "0">>), Str(<<"1", "0", ".", "2", "0", ".", "3">>), Str(<<"a">>)}

\* names of 2, 3, 45 and 46 characters
NameSliceOpts ==
  {Str([i \in 1..2 |-> "a"]), Str([i \in 1..3 |-> "a"]),
   Str([i \in 1..45 |-> "a"]), Str([i \in 1..46 |-> "a"])}

\* icons: an empty object; every size declared; the required sizes only; a
\* declared size with an empty path; paths with no file, a key that is no
\* size, a path used twice
IconsAll ==
  Obj(<< <<"16", Str(Icon16Path)>>, <<"19", Str(Icon128Path)>>, <<"32", Str(Icon128Path)>>,
         <<"38", Str(Icon128Path)>>, <<"48", Str(Icon128Path)>>, <<"64", Str(Icon128Path)>>,
         <<"96", Str(Icon128Path)>>, <<"128", Str(Icon128Path)>> >>)
IconsEmptyPath ==
  Obj(<< <<"16", Str(<<>>)>>, <<"48", Str(Icon128Path)>>, <<"128", Str(Icon128Path)>>,
         <<"19", Str(<<>>)>> >>)
IconsNoFile ==
  Obj(<< <<"big", Str(Icon16Path)>>, <<"48", Str(<<"n", "o", "p", "e", ".", "p", "n", "g">>)>>,
         <<"128", Str(Icon128Path)>>, <<"16", Str(<<"n", "o", "p", "e", ".", "p", "n", "g">>)>> >>)
IconsRequired ==
  Obj(<< <<"16", Str(Icon16Path)>>, <<"48", Str(Icon128Path)>>, <<"128", Str(Icon128Path)>> >>)
IconsSliceOpts == {Obj(<<>>), IconsAll, IconsRequired, IconsEmptyPath, IconsNoFile}

\* permissions: none listed, one listed twice, four of the dangerous list,
\* eleven permissions, two URL patterns
Bookmarks == Str(<<"b", "o", "o", "k", "m", "a", "r", "k", "s">>)
History == Str(<<"h", "i", "s", "t", "o", "r", "y">>)
AllUrls == Str(<<"<", "a", "l", "l", "_", "u", "r", "l", "s", ">">>)
HttpAll == Str(<<"h", "t", "t", "p", ":", "/", "/", "*", "/", "*">>)
PermissionsSliceOpts ==
  {Arr(<<>>), Arr(<<Tabs, Storage, Tabs>>), Arr(<<Tabs, History, Bookmarks, AllUrls>>),
   Arr([i \in 1..11 |-> Storage]), Arr(<<HttpsAll, HttpAll>>)}

\* (name, description) pairs for the keyword search: keywords in upper and
\* mixed case, a keyword twice, "min" + "ing" split between the two fields,
\* and a keyword with the other field missing
TextSliceOpts ==
  {<<Str(<<"A", "d", "u", "l", "t", " ", "M", "i", "n", "i", "n", "g">>), DescriptionOk>>,
   <<NameOk, Str(<<"C", "R", "Y", "P", "T", "O", "C", "U", "R", "R", "E", "N", "C", "Y", " ", "a", "n", "d", " ", "v", "i", "o", "l", "e", "n", "c", "e">>)>>,
   <<Str(<<"a", "d", "u", "l", "t", " ", "a", "d", "u", "l", "t">>), DescriptionOk>>,
   <<Str(<<"T", "a", "b", " ", "m", "i", "n">>), Str(<<"i", "n", "g", " ", "t", "o", "o", "l", " ", "f", "o", "r", " ", "t", "a", "b", "s">>)>>,
   <<Undef, Str(<<"a", "d", "u", "l", "t", " ", "t", "a", "b", "s">>)>>,
   <<Str(<<"v", "i", "o", "l", "e", "n", "c", "e">>), Undef>>}

\* the four purpose fields: content_scripts absent, empty or with one entry,
\* each of background, action, browser_action and options_page absent or set
MoreSliceOpts ==
  {Field("content_scripts", cs) \o Field("background", bg) \o Field("action", ac)
     \o Field("browser_action", ba) \o Field("options_page", op) :
     cs \in {Undef, Arr(<<>>), Arr(<<Obj(<<>>)>>)}, bg \in {Undef, Obj(<<>>)},
     ac \in {Undef, Obj(<<>>)}, ba \in {Undef, Obj(<<>>)},
     op \in {Undef, Str(<<"o", ".", "h", "t", "m", "l">>)}}

SliceManifests ==
  {MakeManifest(NameOk, v, DescriptionOk, Num(3), IconsTwo, Undef, Undef, <<>>) :
     v \in VersionSliceOpts}
  \cup {MakeManifest(n, VersionOk, DescriptionOk, Num(3), IconsTwo, Undef, Undef, <<>>) :
          n \in NameSliceOpts}
  \cup {MakeManifest(NameOk, VersionOk, DescriptionOk, Num(0), IconsTwo, Undef, Undef, <<>>)}
  \cup {MakeManifest(NameOk, VersionOk, DescriptionOk, Num(3), ic, Undef, Undef, <<>>) :
          ic \in IconsSliceOpts}
  \cup {MakeManifest(NameOk, VersionOk, DescriptionOk, mv, IconsTwo, pe, PolicyUrl, <<>>) :
          mv \in {Num(2), Num(3)}, pe \in PermissionsSliceOpts}
  \cup {MakeManifest(NameOk, VersionOk, DescriptionOk, Num(3), IconsTwo, pe, po, <<>>) :
          pe \in {Arr(<<Tabs>>), Arr(<<Storage>>), Arr(<<History>>),
                  Arr(<<Str(Identity), Str(Identity)>>)},
          po \in {Undef, Str(<<>>)}}
  \cup {MakeManifest(t[1], VersionOk, t[2], Num(3), IconsAll, Undef, Undef, <<>>) :
          t \in TextSliceOpts}
  \cup {MakeManifest(NameOk, VersionOk, DescriptionOk, Num(3), IconsAll, Undef, Undef, mo) :
          mo \in MoreSliceOpts}

\* file lists around the icon size limit: the first file matching
\* icon128.png has exactly max_file_size bytes, a later one more
FilesIconEdge ==
  <<File(ManifestJson, 400), File(<<"a", "/">> \o Icon128Path, 2 * MiB),
    File(Icon128Path, 2 * MiB + 1), File(Icon16Path, 2 * MiB + 1)>>
FilesManifestOnly == <<File(ManifestJson, 400)>>

\* file lists of 100 MiB, exactly 128 MiB, one byte more, and 130 MiB
Files100 == <<File(ManifestJson, 400), File(<<"b", ".", "j", "s">>, 100 * MiB - 400)>>
Files128 == <<File(ManifestJson, 400), File(<<"b", ".", "j", "s">>, 128 * MiB - 400)>>
Files128Plus1 == <<File(ManifestJson, 400), File(<<"b", ".", "j", "s">>, 128 * MiB - 399)>>
Files130 == <<File(ManifestJson, 400), File(<<"b", ".", "j", "s">>, 130 * MiB - 400)>>
EdgeFiles == {FilesIconEdge, FilesManifestOnly, Files100, Files128, Files128Plus1, Files130}

\* single-run inputs: every well-formed, odd and slice manifest with the two
\* common file lists, and the icon manifests with the edge file lists
WideUploads ==
  {Upload(f, m) : f \in {FilesSmall, FilesBig},
                  m \in WellFormedManifests \cup OddManifests \cup SliceManifests}
  \cup {Upload(f, m) : f \in EdgeFiles,
          m \in {GoodManifest, Obj(<<>>)}
                \cup {MakeManifest(NameOk, VersionOk, DescriptionOk, Num(3), ic, Undef, Undef,
                                   <<>>) : ic \in IconsSliceOpts}}

TabsManifest ==
  MakeManifest(NameOk, VersionOk, DescriptionOk, Num(3), IconsTwo, Arr(<<Tabs>>), Undef, <<>>)
TabsPolicyManifest ==
  MakeManifest(NameOk, VersionOk, DescriptionOk, Num(3), IconsTwo, Arr(<<Tabs>>),
               PolicyUrl, <<>>)
PermissionsStringManifest ==
  MakeManifest(NameOk, VersionOk, DescriptionOk, Num(2), IconsTwo, Tabs, Undef, <<>>)

\* session inputs: uploads with and without manifest.json, with text that
\* does not parse, and with manifests that do
SessionUploads ==
  {Upload(f, m) : f \in {FilesSmall, FilesBig},
                  m \in {Null, Obj(<<>>), GoodManifest, TabsManifest, TabsPolicyManifest,
                         PermissionsStringManifest}}
  \cup {Upload(FilesSmall, SyntaxErr), Upload(FilesNoManifest, Undef)}

(***************************************************************************)
(* Upload handlers.  A handler runs when no validateForStore invocation is *)
(* between two of its awaits: those continuations are microtasks and run   *)
(* before the next event.                                                  *)
(***************************************************************************)
Read(entry, u) == [id |-> uploads + 1, entry |-> entry, upload |-> u]

\* onDrop: with a manifest.json the handler awaits manifestFile.text();
\* without one it shows "Manifest not found"
handleDrop(u) ==
  /\ run.pc = "idle"
  /\ uploads < MaxUploads
  /\ uploads' = uploads + 1
  /\ IF HasManifestFile(u.files)
     THEN /\ reads' = reads \cup {Read("drop", u)}
          /\ UNCHANGED <<toasts, acqFailures>>
     ELSE /\ toasts' = Append(toasts, Toast("Manifest not found", "destructive", 0, 0))
          /\ acqFailures' = acqFailures + 1
          /\ UNCHANGED reads
  /\ UNCHANGED <<validationResults, isValidating, progress, extensionData, overallScore,
                 run, runsStarted, publishedRun, reports, startOrder>>

\* the file input's onChange: with a manifest.json it waits for
\* manifestFile.text(); without one it does nothing
onChange(u) ==
  /\ run.pc = "idle"
  /\ uploads < MaxUploads
  /\ uploads' = uploads + 1
  /\ IF HasManifestFile(u.files)
     THEN /\ reads' = reads \cup {Read("picker", u)}
          /\ UNCHANGED acqFailures
     ELSE /\ acqFailures' = acqFailures + 1
          /\ UNCHANGED reads
  /\ UNCHANGED <<validationResults, isValidating, progress, extensionData, overallScore,
                 toasts, run, runsStarted, publishedRun, reports, startOrder>>

\* faulty variant: the new run starts from the list already published
StaleResults == validationResults

\* const results: StoreValidationResult[] = []
NewResults == <<>>

\* validateForStore up to its first await: the busy flag, the progress reset,
\* the fresh findings list and the manifest check
StartRun(manifest, files) ==
  LET first == validateManifestRequirements(manifest, NewResults)
  IN [pc |-> "manifest", manifest |-> manifest, files |-> files,
      results |-> first.results, threw |-> first.threw]

\* the continuation of manifestFile.text(): JSON.parse, then either the
\* "Invalid manifest" toast or setExtensionData and validateForStore
ParseAndValidate(r) ==
  /\ run.pc = "idle"
  /\ reads' = reads \ {r}
  /\ IF r.upload.manifest = SyntaxErr
     THEN /\ toasts' = Append(toasts, Toast("Invalid manifest", "destructive", 0, 0))
          /\ acqFailures' = acqFailures + 1
          /\ UNCHANGED <<extensionData, isValidating, progress, run, runsStarted,
                         startOrder>>
     ELSE /\ extensionData' = r.upload.manifest
          /\ isValidating' = TRUE
          /\ progress' = 0
          /\ run' = StartRun(r.upload.manifest, r.upload.files)
          /\ runsStarted' = runsStarted + 1
          /\ startOrder' = Append(startOrder, r.id)
          /\ UNCHANGED <<toasts, acqFailures>>
  /\ UNCHANGED <<validationResults, overallScore, uploads, publishedRun, reports>>

handleDropResumed == \E r \in reads : r.entry = "drop" /\ ParseAndValidate(r)
onChangeResumed == \E r \in reads : r.entry = "picker" /\ ParseAndValidate(r)

(***************************************************************************)
(* validateForStore, one action per continuation                           *)
(***************************************************************************)
\* faulty variant: a continuation clears the busy flag
ContinueClearingFlag(pc, p, outcome) ==
  /\ progress' = p
  /\ run' = [run EXCEPT !.pc = pc, !.results = outcome.results, !.threw = outcome.threw]
  /\ isValidating' = FALSE
  /\ UNCHANGED <<validationResults, extensionData, overallScore, toasts,
                 reads, uploads, runsStarted, publishedRun, acqFailures, reports,
                 startOrder>>

Continue(pc, p, outcome) ==
  /\ progress' = p
  /\ run' = [run EXCEPT !.pc = pc, !.results = outcome.results, !.threw = outcome.threw]
  /\ UNCHANGED <<validationResults, isValidating, extensionData, overallScore, toasts,
                 reads, uploads, runsStarted, publishedRun, acqFailures, reports,
                 startOrder>>

\* setProgress(20); await validateIconRequirements(manifest, files, results)
ResumeIcons ==
  /\ run.pc = "manifest" /\ ~run.threw
  /\ Continue("icons", 20, validateIconRequirements(run.manifest, run.files, run.results))

\* setProgress(40); await validatePermissionRequirements(manifest, results)
ResumePermissions ==
  /\ run.pc = "icons" /\ ~run.threw
  /\ Continue("permissions", 40, validatePermissionRequirements(run.manifest, run.results))

\* setProgress(60); await validatePrivacyRequirements(manifest, results)
ResumePrivacy ==
  /\ run.pc = "permissions" /\ ~run.threw
  /\ Continue("privacy", 60, validatePrivacyRequirements(run.manifest, run.results))

\* setProgress(80); await validateContentPolicies(manifest, files, results)
ResumeContent ==
  /\ run.pc = "privacy" /\ ~run.threw
  /\ Continue("content", 80, validateContentPolicies(run.manifest, run.files, run.results))

\* faulty variant: the score is computed from the list published before
SetReportOldScore(results) ==
  /\ validationResults' = results
  /\ overallScore' = calculateOverallScore(validationResults)

\* setValidationResults(results); calculateOverallScore(results)
SetReport(results) ==
  /\ validationResults' = results
  /\ overallScore' = calculateOverallScore(results)

\* setProgress(100), the report, the "Store validation complete" toast, and
\* the finally block
Publish ==
  /\ run.pc = "content" /\ ~run.threw
  /\ progress' = 100
  /\ SetReport(run.results)
  /\ toasts' = Append(toasts,
       Toast("Store validation complete",
             IF CountSeverity(run.results, "critical") > 0 THEN "destructive" ELSE "default",
             CountSeverity(run.results, "critical"), CountType(run.results, "error")))
  /\ isValidating' = FALSE
  /\ run' = Idle
  /\ publishedRun' = runsStarted
  /\ reports' = reports \cup {[manifest |-> run.manifest, files |-> run.files,
                               findings |-> validationResults', score |-> overallScore']}
  /\ UNCHANGED <<extensionData, reads, uploads, runsStarted, acqFailures, startOrder>>

\* faulty variant: the catch block resets the progress bar
CatchFinallyResettingProgress ==
  /\ run.pc # "idle" /\ run.threw
  /\ toasts' = Append(toasts, Toast("Validation failed", "destructive", 0, 0))
  /\ isValidating' = FALSE
  /\ progress' = 0
  /\ run' = Idle
  /\ UNCHANGED <<validationResults, extensionData, overallScore, reads, uploads,
                 runsStarted, publishedRun, acqFailures, reports, startOrder>>

\* faulty variant: the catch block shows nothing
CatchFinallySilent ==
  /\ run.pc # "idle" /\ run.threw
  /\ isValidating' = FALSE
  /\ run' = Idle
  /\ UNCHANGED <<validationResults, progress, extensionData, overallScore, toasts, reads,
                 uploads, runsStarted, publishedRun, acqFailures, reports, startOrder>>

\* the catch block ("Validation failed") and the finally block, entered from
\* the await of a check that threw
CatchFinally ==
  /\ run.pc # "idle" /\ run.threw
  /\ toasts' = Append(toasts, Toast("Validation failed", "destructive", 0, 0))
  /\ isValidating' = FALSE
  /\ run' = Idle
  /\ UNCHANGED <<validationResults, progress, extensionData, overallScore, reads, uploads,
                 runsStarted, publishedRun, acqFailures, reports, startOrder>>

RunStep ==
  \/ ResumeIcons
  \/ ResumePermissions
  \/ ResumePrivacy
  \/ ResumeContent
  \/ Publish
  \/ CatchFinally

Next ==
  \/ \E u \in SessionUploads : handleDrop(u)
  \/ \E u \in SessionUploads : onChange(u)
  \/ handleDropResumed
  \/ onChangeResumed
  \/ RunStep

Spec == Init /\ [][Next]_vars

(***************************************************************************)
(* One validation run over every input of WideUploads: the state after the *)
(* drop of one upload, then its continuations                              *)
(***************************************************************************)
InitWide ==
  /\ validationResults = <<>>
  /\ isValidating = FALSE
  /\ progress = 0
  /\ extensionData = Null
  /\ overallScore = 0
  /\ toasts = <<>>
  /\ \E u \in WideUploads : reads = {[id |-> 1, entry |-> "drop", upload |-> u]}
  /\ run = Idle
  /\ uploads = 1
  /\ runsStarted = 0
  /\ publishedRun = 0
  /\ acqFailures = 0
  /\ reports = {}
  /\ startOrder = <<>>

NextWide ==
  \/ handleDropResumed
  \/ RunStep

SpecWide == InitWide /\ [][NextWide]_vars

(***************************************************************************)
(* The score of every findings list of up to MaxFindings findings: the     *)
(* report step of validateForStore applied to the published list, or to    *)
(* the published list with one more finding                                *)
(***************************************************************************)
SampleFindings ==
  {Finding("manifest", "error", "critical", "Missing", <<"name">>),
   Finding("manifest", "error", "high", "Name too short", <<>>),
   Finding("manifest", "warning", "medium", "Description too long", <<>>),
   Finding("content", "info", "low", "Multiple functionalities detected", <<>>)}

ScoreReport(results) ==
  /\ Len(results) <= MaxFindings
  /\ SetReport(results)
  /\ UNCHANGED <<isValidating, progress, extensionData, toasts, reads, run, uploads,
                 runsStarted, publishedRun, acqFailures, reports, startOrder>>

NextScore ==
  \E results \in {validationResults} \cup {Append(validationResults, f) : f \in SampleFindings} :
    ScoreReport(results)

SpecScore == Init /\ [][NextScore]_vars

(***************************************************************************)
(* validate(manifest, files) as one function: the five checks of           *)
(* validateForStore in their order, stopping at the first that throws      *)
(***************************************************************************)
ValidateAll(manifest, files) ==
  LET r1 == validateManifestRequirements(manifest, <<>>)
      r2 == IF r1.threw THEN r1 ELSE validateIconRequirements(manifest, files, r1.results)
      r3 == IF r2.threw THEN r2 ELSE validatePermissionRequirements(manifest, r2.results)
      r4 == IF r3.threw THEN r3 ELSE validatePrivacyRequirements(manifest, r3.results)
  IN IF r4.threw THEN r4 ELSE validateContentPolicies(manifest, files, r4.results)

(***************************************************************************)
(* Properties                                                              *)
(***************************************************************************)
ToastCount(titles) == Cardinality({i \in 1..Len(toasts) : toasts[i].title \in titles})

\* C1 (determinism): any two published reports of identical (manifest, files)
\* have the identical findings sequence and the identical score, whatever ran
\* before them.
C1_Determinism ==
  \A r1, r2 \in reports :
    (r1.manifest = r2.manifest /\ r1.files = r2.files)
      => (r1.findings = r2.findings /\ r1.score = r2.score)

\* two runs completed and left one report: the same input was validated twice
C1_Witness ==
  /\ ToastCount({"Store validation complete"}) = 2
  /\ Cardinality(reports) = 1
  /\ Len(validationResults) > 0

\* C2 (score bounds): in every state, before, during and after any run, the
\* published overallScore is an integer between 0 and 100.
C2_ScoreBounds == overallScore \in 0..100

\* a published report whose penalties exceed 100 and whose score is 0
C2_Witness ==
  /\ publishedRun > 0
  /\ 100 + Penalties(validationResults, 1) < 0
  /\ overallScore = 0

ClampedScore(results) ==
  LET raw == 100 - 25 * CountSeverity(results, "critical")
                 - 15 * CountSeverity(results, "high")
                 - 10 * CountSeverity(results, "medium")
                 - 5 * CountSeverity(results, "low")
  IN IF raw < 0 THEN 0 ELSE IF raw > 100 THEN 100 ELSE raw

\* C3 (score formula): every step that publishes a findings list sets the
\* score to clamp(100 - 25*critical - 15*high - 10*medium - 5*low, 0, 100) of
\* that list, whatever score was published before.
C3_ScoreFormula ==
  [][overallScore' = ClampedScore(validationResults')]_vars

\* one finding of each severity is published with the score 45
C3_Witness ==
  /\ \A sev \in {"critical", "high", "medium", "low"} :
       CountSeverity(validationResults, sev) = 1
  /\ overallScore = 45

CriticalFinding == Finding("manifest", "error", "critical", "Missing", <<"name">>)
IsReport == ~(validationResults = <<>> /\ overallScore = 0)

\* C4 (monotonic scoring): publishing a report's list with one more critical
\* finding lowers the score by 25, not below 0: the new score is
\* max(0, old - 25), and is strictly lower whenever the old score is above 0.
C4_MonotonicCritical ==
  [][(IsReport /\ validationResults' = Append(validationResults, CriticalFinding))
       => /\ overallScore' = Max(0, overallScore - 25)
          /\ (overallScore > 0 => overallScore' < overallScore)]_vars

\* a critical finding was added to a list scoring between 1 and 24: the clamp
C4_Witness ==
  /\ Len(validationResults) > 1
  /\ validationResults[Len(validationResults)] = CriticalFinding
  /\ ClampedScore(SubSeq(validationResults, 1, Len(validationResults) - 1)) \in 1..24
  /\ overallScore = 0

\* C5 (the validator cannot fail mid-run): no check of a decoded manifest
\* throws and the "Validation failed" branch is never taken.
C5_NeverFails ==
  /\ ~run.threw
  /\ ToastCount({"Validation failed"}) = 0

\* C6 (input-acquisition failure): every upload without a manifest.json or
\* with text that is not JSON is notified exactly once and starts no run:
\* each upload is still being read, has failed acquisition or has started a
\* run, and there is one acquisition toast per failed acquisition.
C6_AcquisitionFailureNotifiedOnce ==
  /\ ToastCount({"Manifest not found", "Invalid manifest"}) = acqFailures
  /\ uploads = Cardinality(reads) + acqFailures + runsStarted

\* C7 (no carryover): once the most recent run has finished, whatever is
\* published was published by that run.
C7_NoCarryover ==
  (run.pc = "idle" /\ publishedRun > 0) => publishedRun = runsStarted

CheckRank(category) ==
  CASE category = "manifest" -> 1
    [] category = "icons" -> 2
    [] category = "permissions" -> 3
    [] category = "privacy" -> 4
    [] category = "content" -> 5
    [] OTHER -> 6

\* C8 (fixed check order): in the published findings no finding of a later
\* check precedes a finding of an earlier check (manifest, icons, permissions,
\* privacy, content).
C8_FixedCheckOrder ==
  \A i, j \in 1..Len(validationResults) :
    i < j => CheckRank(validationResults[i].category)
               <= CheckRank(validationResults[j].category)

\* a published report with findings of all five checks
C8_Witness ==
  /\ publishedRun > 0
  /\ \A c \in {"manifest", "icons", "permissions", "privacy", "content"} :
       \E i \in 1..Len(validationResults) : validationResults[i].category = c

MissingAllRequired(manifest) ==
  \A field \in {"name", "version", "description", "manifest_version"} :
    Get(manifest, field) = Undef

OfCategory(findings, category) ==
  LET Is(f) == f.category = category IN SelectSeq(findings, Is)

\* C9 (required-field completeness): a manifest with none of name, version,
\* description and manifest_version yields exactly four manifest-check
\* findings, the four critical "Missing" errors, and the score 0.
C9_RequiredFieldCompleteness ==
  \A r \in reports :
    MissingAllRequired(r.manifest)
      => /\ OfCategory(r.findings, "manifest")
              = [i \in 1..4 |-> Finding("manifest", "error", "critical", "Missing",
                                        <<(<<"name", "version", "description",
                                             "manifest_version">>)[i]>>)]
         /\ r.score = 0

\* such a manifest, with icons and permissions declared, has been reported
C9_Witness ==
  \E r \in reports :
    /\ MissingAllRequired(r.manifest)
    /\ Truthy(Get(r.manifest, "icons"))
    /\ Truthy(Get(r.manifest, "permissions"))
    /\ r.score = 0

PolicyRequired == Finding("privacy", "error", "critical", "Privacy policy required", <<>>)
Without(findings, finding) ==
  LET Keep(f) == f # finding IN SelectSeq(findings, Keep)
Occurrences(findings, finding) ==
  Cardinality({i \in 1..Len(findings) : findings[i] = finding})
WithPolicy(manifest) == Obj(manifest.v \o << <<"privacy_policy", PolicyUrl>> >>)

CollectsWithoutPolicy(manifest) ==
  /\ manifest.t = "obj"
  /\ Get(manifest, "permissions").t = "arr"
  /\ CollectsData(Get(manifest, "permissions"))
  /\ Get(manifest, "privacy_policy") = Undef

Titled(findings, title) ==
  LET Is(f) == f.title = title IN SelectSeq(findings, Is)

\* one or more dot-separated groups of decimal digits
DotSeparatedIntegers(s) ==
  /\ Len(s) > 0
  /\ \A i \in 1..Len(s) : IsDigit(s[i]) \/ s[i] = "."
  /\ IsDigit(s[1]) /\ IsDigit(s[Len(s)])
  /\ \A i \in 1..(Len(s) - 1) : ~(s[i] = "." /\ s[i + 1] = ".")

\* C11 (version format): in every report whose manifest has a version
\* string, there is exactly one "Invalid version format" finding, a high
\* error, when the version is not one or more dot-separated non-negative
\* integers, and none when it is; a manifest without a version has none.
C11_VersionFormat ==
  \A r \in reports :
    LET version == Get(r.manifest, "version")
        invalid == Titled(r.findings, "Invalid version format")
    IN  /\ version = Undef => invalid = <<>>
        /\ version.t = "str"
             => invalid = IF DotSeparatedIntegers(version.v)
                          THEN <<>>
                          ELSE <<Finding("manifest", "error", "high",
                                         "Invalid version format", <<>>)>>

\* C12 (package size): every report has exactly one "Package too large"
\* finding, a high error of the content check, when the sizes of the
\* uploaded files add up to more than 134217728 bytes (128 MiB), and none
\* when they add up to that or less.
C12_PackageSize ==
  \A r \in reports :
    LET large == Titled(r.findings, "Package too large")
    IN  /\ Len(large) = IF TotalSize(r.files, 1) > 134217728 THEN 1 ELSE 0
        /\ \A i \in 1..Len(large) :
             /\ large[i].category = "content"
             /\ large[i].type = "error" /\ large[i].severity = "high"

\* an upload of 128 MiB + 1 byte has been reported, with the finding
C12_Witness ==
  \E r \in reports : /\ TotalSize(r.files, 1) = 128 * MiB + 1
                     /\ Len(Titled(r.findings, "Package too large")) = 1

\* C13 (inputs read-only, findings append-only): while a run is in progress
\* no step changes the manifest or the files it validates, nor the manifest
\* kept in extensionData; each check leaves the findings already in the
\* run's list where they are and only adds after them; and the list
\* published at the end is the run's list as the last check left it.  (The
\* rulebook is a set of constant definitions: no step can assign to it.)
C13_InputsReadOnly ==
  [][/\ (run.pc # "idle" /\ run'.pc # "idle")
          => /\ run'.manifest = run.manifest
             /\ run'.files = run.files
             /\ extensionData' = extensionData
             /\ Len(run'.results) >= Len(run.results)
             /\ SubSeq(run'.results, 1, Len(run.results)) = run.results
     /\ (run.pc # "idle" /\ run'.pc = "idle")
          => /\ extensionData' = extensionData
             /\ validationResults' \in {validationResults, run.results}]_vars

\* a run has got through its five checks with findings of three of them
C13_Witness ==
  /\ run.pc = "content" /\ ~run.threw
  /\ \A c \in {"manifest", "icons", "content"} : OfCategory(run.results, c) # <<>>

\* the critical error of the required-field loop for one field
MissingFinding(field) == Finding("manifest", "error", "critical", "Missing", <<field>>)

\* C14 (missing required fields): in every report, for each of name,
\* version, description and manifest_version, there is exactly one critical
\* "Missing <field>" error when the manifest has no such field, and none
\* when it has one, whatever its value (an empty name, manifest_version 0).
C14_MissingIffAbsent ==
  \A r \in reports :
    \A field \in {"name", "version", "description", "manifest_version"} :
      Occurrences(r.findings, MissingFinding(field))
        = IF Get(r.manifest, field) = Undef THEN 1 ELSE 0

\* C15 (name length): in every report whose manifest has a name, a string,
\* there is exactly one high error "Name too short" when the name has fewer
\* than 3 characters, exactly one high error "Name too long" when it has
\* more than 45, and neither when it has 3 to 45.
C15_NameLength ==
  \A r \in reports :
    LET name == Get(r.manifest, "name")
    IN  name.t = "str"
          => /\ Occurrences(r.findings,
                  Finding("manifest", "error", "high", "Name too short", <<>>))
                  = IF Len(name.v) < 3 THEN 1 ELSE 0
             /\ Occurrences(r.findings,
                  Finding("manifest", "error", "high", "Name too long", <<>>))
                  = IF Len(name.v) > 45 THEN 1 ELSE 0
             /\ Len(Titled(r.findings, "Name too short"))
                  + Len(Titled(r.findings, "Name too long")) <= 1

\* the one finding of the icons check for a manifest without icons
NoIconsFinding == Finding("icons", "error", "critical", "No icons specified", <<>>)

\* C16 (icons absent): for a manifest with no icons field the icons check
\* adds exactly one finding, the critical error "No icons specified", and
\* the run goes on: the permissions check is the next step, and a report
\* of such a manifest holds, after that one icons finding, what the
\* permissions, privacy and content checks produce for the manifest.
C16_IconsAbsent ==
  /\ (run.pc = "icons" /\ Get(run.manifest, "icons") = Undef)
        => /\ OfCategory(run.results, "icons") = <<NoIconsFinding>>
           /\ run.results[Len(run.results)] = NoIconsFinding
           /\ ENABLED ResumePermissions
  /\ \A r \in reports :
       Get(r.manifest, "icons") = Undef
         => r.findings
              = validateManifestRequirements(r.manifest, <<>>).results
                \o <<NoIconsFinding>>
                \o validatePermissionRequirements(r.manifest, <<>>).results
                \o validatePrivacyRequirements(r.manifest, <<>>).results
                \o validateContentPolicies(r.manifest, r.files, <<>>).results

\* a manifest without icons has been reported with a permissions, a privacy
\* and a content finding after the icons finding
C16_Witness ==
  \E r \in reports :
    /\ Get(r.manifest, "icons") = Undef
    /\ \A c \in {"permissions", "privacy", "content"} : OfCategory(r.findings, c) # <<>>

\* C17 (icon sizes): in every report whose manifest has an icons object,
\* there is exactly one high error "Missing <size>px icon" for each of the
\* sizes 16, 48, 128 that is no key of icons, exactly one low info
\* "Recommended <size>px icon missing" for each of 19, 38, 32, 64, 96 that
\* is no key, and none for a size that is a key, whatever its path.
C17_IconSizes ==
  \A r \in reports :
    LET icons == Get(r.manifest, "icons")
    IN  icons.t = "obj"
          => /\ \A size \in {"16", "48", "128"} :
                  Occurrences(r.findings,
                              Finding("icons", "error", "high", "Missing icon", <<size>>))
                    = IF Get(icons, size) = Undef THEN 1 ELSE 0
             /\ \A size \in {"19", "38", "32", "64", "96"} :
                  Occurrences(r.findings,
                              Finding("icons", "info", "low", "Recommended icon missing",
                                      <<size>>))
                    = IF Get(icons, size) = Undef THEN 1 ELSE 0
             /\ Len(Titled(r.findings, "Missing icon"))
                  = Cardinality({s \in {"16", "48", "128"} : Get(icons, s) = Undef})
             /\ Len(Titled(r.findings, "Recommended icon missing"))
                  = Cardinality({s \in {"19", "38", "32", "64", "96"} :
                                   Get(icons, s) = Undef})

\* what the claim expects for one declared icon path: "missing" when no
\* file has the path as its name or as the end of its name, otherwise
\* "large" when the first such file has more than 2 MiB, otherwise "fine"
ExpectedForPath(path, files) ==
  LET matching == {i \in 1..Len(files) :
                     files[i].name = path \/ EndsWith(files[i].name, path)}
      first == CHOOSE i \in matching : \A j \in matching : i <= j
  IN  IF matching = {} THEN "missing"
      ELSE IF files[first].size > 2097152 THEN "large"
      ELSE "fine"

\* C18 (icon file references): in every report whose manifest has an icons
\* object, each declared (size, path) entry yields the high error "Icon
\* file not found" exactly when no uploaded file has the path as its name
\* or as a suffix of its name, and otherwise the medium warning "Large icon
\* file" exactly when the file found has more than 2 MiB: the report holds
\* one such finding per entry of either kind and no others.
C18_IconFiles ==
  \A r \in reports :
    LET icons == Get(r.manifest, "icons")
        entries == IF icons.t = "obj" THEN icons.v ELSE <<>>
        Of(kind) == {i \in 1..Len(entries) :
                       ExpectedForPath(entries[i][2].v, r.files) = kind}
        notFound == Titled(r.findings, "Icon file not found")
        large == Titled(r.findings, "Large icon file")
    IN  (icons.t = "obj" /\ \A i \in 1..Len(entries) : entries[i][2].t = "str")
          => /\ Len(notFound) = Cardinality(Of("missing"))
             /\ Len(large) = Cardinality(Of("large"))
             /\ Len(notFound) + Len(large) <= Len(entries)
             /\ \A i \in 1..Len(notFound) :
                  /\ notFound[i].type = "error" /\ notFound[i].severity = "high"
                  /\ \E e \in Of("missing") : notFound[i].arg = entries[e][2].v
             /\ \A i \in 1..Len(large) :
                  /\ large[i].type = "warning" /\ large[i].severity = "medium"
                  /\ \E e \in Of("large") :
                       SubSeq(large[i].arg, 1, Len(entries[e][2].v)) = entries[e][2].v

\* icons with two paths that match no file, one whose first matching file
\* has exactly 2 MiB and one whose file has a byte more have been reported
C18_Witness ==
  \E r \in reports :
    /\ Get(r.manifest, "icons") = IconsNoFile /\ r.files = FilesIconEdge
    /\ Len(Titled(r.findings, "Icon file not found")) = 2
    /\ Len(Titled(r.findings, "Large icon file")) = 1

\* C19 (dangerous permissions): in every report whose manifest lists its
\* permissions, the number of "Broad permission" findings, each a high
\* warning, is the number of entries of the dangerous list that occur among
\* the permissions, also when a permission is listed more than once; a
\* manifest without permissions has none.
C19_DangerousPermissions ==
  \A r \in reports :
    LET permissions == Get(r.manifest, "permissions")
        broad == Titled(r.findings, "Broad permission")
    IN  /\ permissions = Undef => broad = <<>>
        /\ permissions.t = "arr"
             => /\ Len(broad)
                     = Cardinality({d \in 1..Len(dangerous) :
                                      \E i \in 1..Len(permissions.v) :
                                        permissions.v[i] = Str(dangerous[d])})
                /\ \A i \in 1..Len(broad) :
                     /\ broad[i].category = "permissions"
                     /\ broad[i].type = "warning" /\ broad[i].severity = "high"

\* a string with "://" somewhere in it
ContainsScheme(s) ==
  \E i \in 1..(Len(s) - 2) : s[i] = ":" /\ s[i + 1] = "/" /\ s[i + 2] = "/"

\* C20 (host permissions under Manifest V3): every report has exactly one
\* "Host permissions in wrong field" finding, a high error, when the
\* manifest has manifest_version 3 and at least one of its permission
\* strings contains "://", however many do, and none otherwise, so none
\* for any other manifest_version.
C20_HostPermissions ==
  \A r \in reports :
    LET permissions == Get(r.manifest, "permissions")
        wrong == Titled(r.findings, "Host permissions in wrong field")
        misplaced ==
          /\ Get(r.manifest, "manifest_version") = Num(3)
          /\ permissions.t = "arr"
          /\ \E i \in 1..Len(permissions.v) :
               permissions.v[i].t = "str" /\ ContainsScheme(permissions.v[i].v)
    IN  wrong = IF misplaced
                THEN <<Finding("permissions", "error", "high",
                               "Host permissions in wrong field", <<>>)>>
                ELSE <<>>

\* a Manifest V3 manifest with two URL patterns among its permissions has
\* been reported, with the one finding
C20_Witness ==
  \E r \in reports :
    /\ Get(r.manifest, "manifest_version") = Num(3)
    /\ Get(r.manifest, "permissions") = Arr(<<HttpsAll, HttpAll>>)
    /\ Len(Titled(r.findings, "Host permissions in wrong field")) = 1

\* some permission of an array is one of identity, cookies, history, tabs
ImpliesDataCollection(permissions) ==
  \E i \in 1..Len(permissions.v) :
    permissions.v[i] \in {Str(Identity), Str(Cookies), History, Tabs}

\* C21 (privacy check): in every report whose manifest lists permissions,
\* there is one critical error "Privacy policy required" exactly when some
\* permission is in the data-collection list and the manifest has no
\* privacy_policy field, one medium info exactly when "identity" is among
\* the permissions and one exactly when "cookies" is, with or without a
\* policy, and no other privacy finding; without permissions there is none.
C21_PrivacyCheck ==
  \A r \in reports :
    LET permissions == Get(r.manifest, "permissions")
        privacy == OfCategory(r.findings, "privacy")
        Count(title) == Len(Titled(privacy, title))
    IN  /\ permissions = Undef => privacy = <<>>
        /\ permissions.t = "arr"
             => /\ Count("Privacy policy required")
                     = IF /\ ImpliesDataCollection(permissions)
                          /\ Get(r.manifest, "privacy_policy") = Undef
                       THEN 1 ELSE 0
                /\ Count("Identity permission detected")
                     = IF \E i \in 1..Len(permissions.v) : permissions.v[i] = Str(Identity)
                       THEN 1 ELSE 0
                /\ Count("Cookie access detected")
                     = IF \E i \in 1..Len(permissions.v) : permissions.v[i] = Str(Cookies)
                       THEN 1 ELSE 0
                /\ Len(privacy) = Count("Privacy policy required")
                                  + Count("Identity permission detected")
                                  + Count("Cookie access detected")
                /\ \A i \in 1..Len(privacy) :
                     \/ privacy[i].type = "error" /\ privacy[i].severity = "critical"
                     \/ privacy[i].type = "info" /\ privacy[i].severity = "medium"

\* the four prohibited keywords, and the text of a field that is a string
\* or missing
Keywords ==
  {<<"c", "r", "y", "p", "t", "o", "c", "u", "r", "r", "e", "n", "c", "y">>,
   <<"m", "i", "n", "i", "n", "g">>, <<"a", "d", "u", "l", "t">>,
   <<"v", "i", "o", "l", "e", "n", "c", "e">>}
FieldText(manifest, field) ==
  IF Get(manifest, field) = Undef THEN <<>> ELSE Get(manifest, field).v
TextFields(manifest) ==
  \A field \in {"name", "description"} : Get(manifest, field).t \in {"undef", "str"}
KeywordWarning(keyword) ==
  Finding("content", "warning", "high", "Potentially prohibited content", keyword)

\* C22 as stated (prohibited keywords): in every report, for each of the
\* four keywords there is exactly one high warning when the keyword occurs,
\* whatever the case of the letters, in the name directly followed by the
\* description, and none otherwise; a missing field contributes no text.
C22_KeywordsInConcatenation ==
  \A r \in reports :
    TextFields(r.manifest)
      => \A keyword \in Keywords :
           Occurrences(r.findings, KeywordWarning(keyword))
             = IF Includes(ToLowerCase(FieldText(r.manifest, "name")
                                       \o FieldText(r.manifest, "description")), keyword)
               THEN 1 ELSE 0

\* C22 (prohibited keywords, amended): in every report, for each of the four
\* keywords there is exactly one high warning when the keyword occurs,
\* whatever the case of the letters, in the name, one space and the
\* description put together, and none otherwise; a missing field
\* contributes no text; there is no other keyword warning.
C22_KeywordsInJoinedText ==
  \A r \in reports :
    TextFields(r.manifest)
      => /\ \A keyword \in Keywords :
              Occurrences(r.findings, KeywordWarning(keyword))
                = IF Includes(ToLowerCase(FieldText(r.manifest, "name") \o <<" ">>
                                          \o FieldText(r.manifest, "description")), keyword)
                  THEN 1 ELSE 0
         /\ \A f \in {r.findings[i] : i \in 1..Len(r.findings)} :
              f.title = "Potentially prohibited content" => f.arg \in Keywords

\* a manifest whose name holds two keywords in mixed case has been reported
\* with the two warnings
C22_Witness ==
  \E r \in reports :
    /\ Includes(FieldText(r.manifest, "name"), <<"A", "d", "u", "l", "t">>)
    /\ Len(Titled(r.findings, "Potentially prohibited content")) = 2

\* the one finding of the single-purpose rule
MultipleFunctionalities ==
  Finding("content", "info", "low", "Multiple functionalities detected", <<>>)
Has(manifest, field) == Get(manifest, field) # Undef
CountTrue(conditions) == Cardinality({i \in 1..Len(conditions) : conditions[i]})

C24_ScoreMatchesFindings ==
  publishedRun > 0 => overallScore = ClampedScore(validationResults)

\* the second upload's run has published findings while the read of the
\* first upload's manifest is still pending
C24_Witness ==
  /\ publishedRun > 0 /\ validationResults # <<>>
  /\ \E r \in reads : r.id = 1

\* C25 (busy flag): isValidating is true in every state in which a
\* validation run has started and not yet finished, whatever other uploads
\* were submitted and whatever reads are pending, and it is false whenever
\* no run is in progress.
C25_BusyFlag ==
  isValidating <=> run.pc # "idle"

\* a run is in progress while the manifest read of another upload, submitted
\* before the run started, is still pending
C25_Witness ==
  /\ run.pc # "idle" /\ isValidating
  /\ uploads = 2 /\ reads # {}

\* two uploads have been validated, both runs have published their report
\* and nothing is pending
BothRunsPublished ==
  /\ run.pc = "idle" /\ reads = {}
  /\ Len(startOrder) = 2
  /\ ToastCount({"Store validation complete"}) = 2

\* C26 (last upload wins): once the runs of two uploads have both finished,
\* the run that came last, whose findings and score are the published ones,
\* is the run of the upload submitted last, and extensionData is the
\* manifest the published findings were computed from.
C26_LastUploadWins ==
  BothRunsPublished
    => /\ startOrder[1] < startOrder[2]
       /\ publishedRun = runsStarted
       /\ \E r \in reports : /\ r.manifest = extensionData
                             /\ r.findings = validationResults
                             /\ r.score = overallScore

(***************************************************************************)
(* One validation run with its continuations scheduled: the continuations  *)
(* of validateForStore are microtasks on settled promises, which the event *)
(* loop always runs                                                        *)
(***************************************************************************)
\* the uploads of the scheduled run: null and a number for a manifest, and
\* manifests with a two-letter name or none, with an empty icons object or
\* none, over the manifest_version options and over permissions that are
\* absent, arrays of strings, a string, a number or an array of a number
RunUploads ==
  {Upload(f, m) : f \in {FilesSmall, FilesBig},
                  m \in {Null, Num(5)}
                        \cup {MakeManifest(n, Undef, Undef, mv, ic, pe, Undef, <<>>) :
                                n \in {Undef, Str(<<"a", "b">>)}, mv \in ManifestVersionOpts,
                                ic \in {Undef, Obj(<<>>)},
                                pe \in PermissionsOpts
                                       \cup {Tabs, Num(5), Arr(<<Num(5)>>)}}}

InitRun ==
  /\ validationResults = <<>>
  /\ isValidating = FALSE
  /\ progress = 0
  /\ extensionData = Null
  /\ overallScore = 0
  /\ toasts = <<>>
  /\ \E u \in RunUploads : reads = {[id |-> 1, entry |-> "drop", upload |-> u]}
  /\ run = Idle
  /\ uploads = 1
  /\ runsStarted = 0
  /\ publishedRun = 0
  /\ acqFailures = 0
  /\ reports = {}
  /\ startOrder = <<>>

SpecRunFair == InitRun /\ [][NextWide]_vars /\ WF_vars(RunStep)

RunToasts == {"Store validation complete", "Validation failed"}

\* C27 (termination, one toast): every validation run that has started
\* eventually finishes; while it is in progress it has shown no toast, and
\* once it has finished, whether all checks completed or one threw, the
\* busy flag is false and the run has shown exactly one toast, "Store
\* validation complete" or "Validation failed".
C27_RunTerminates ==
  /\ [](run.pc # "idle" => ToastCount(RunToasts) = runsStarted - 1)
  /\ [](run.pc = "idle" => ToastCount(RunToasts) = runsStarted /\ ~isValidating)
  /\ (run.pc # "idle") ~> (run.pc = "idle")

\* a run in which a check threw has finished with the one toast "Validation
\* failed" and the busy flag released
C27_Witness ==
  /\ run.pc = "idle" /\ runsStarted = 1 /\ ~isValidating
  /\ Len(toasts) = 1 /\ toasts[1].title = "Validation failed"

\* the number of checks a run at a given position has called, and the
\* number of them that completed
ChecksCalled(pc) ==
  CASE pc = "manifest" -> 1 [] pc = "icons" -> 2 [] pc = "permissions" -> 3
    [] pc = "privacy" -> 4 [] pc = "content" -> 5 [] OTHER -> 0
ChecksCompleted == ChecksCalled(run.pc) - (IF run.threw THEN 1 ELSE 0)

\* C28 (progress of a run): progress is always one of 0, 20, 40, 60, 80,
\* 100; during a run it never decreases and progress = 20 * k only when at
\* least the first k checks have completed; findings are published only by
\* a step that leaves progress at 100; and the end of a run in which a
\* check threw publishes nothing and leaves progress at 20 times the
\* number of checks that completed.
C28_Progress ==
  /\ [](progress \in {0, 20, 40, 60, 80, 100})
  /\ [](run.pc # "idle" => /\ progress = 20 * (ChecksCalled(run.pc) - 1)
                           /\ progress <= 20 * ChecksCompleted)
  /\ [][/\ (run.pc # "idle" /\ run'.pc # "idle") => progress' >= progress
        /\ validationResults' # validationResults => progress' = 100
        /\ (run.pc # "idle" /\ ~run.threw /\ run'.pc = "idle")
             => progress' = 100 /\ validationResults' = run.results
        /\ (run.pc # "idle" /\ run.threw /\ run'.pc = "idle")
             => /\ progress' = progress /\ progress' = 20 * ChecksCompleted
                /\ validationResults' = validationResults
                /\ overallScore' = overallScore /\ reports' = reports]_vars

\* a run whose third check threw has ended with progress 40 and nothing
\* published
C28_Witness ==
  /\ run.pc = "idle" /\ runsStarted = 1 /\ progress = 40
  /\ validationResults = <<>> /\ reports = {}
  /\ Len(toasts) = 1 /\ toasts[1].title = "Validation failed"

\* C29 (score 100 and multiples of 5): every finding of every report has a
\* severity among critical, high, medium and low, which carries a negative
\* weight; a report has the score 100 exactly when it has no finding, any
\* report with a finding has a score of at most 95, and every reported
\* score is a multiple of 5.
C29_PerfectScore ==
  \A r \in reports :
    /\ \A i \in 1..Len(r.findings) :
         /\ r.findings[i].severity \in {"critical", "high", "medium", "low"}
         /\ Weight(r.findings[i].severity) < 0
    /\ r.score = 100 <=> r.findings = <<>>
    /\ r.findings # <<>> => r.score <= 95
    /\ r.score % 5 = 0

\* a report without findings and with the score 100 has been published
C29_Witness ==
  \E r \in reports : r.findings = <<>> /\ r.score = 100 /\ overallScore = 100


\* const criticalIssues = validationResults.filter((r) => r.severity ===
\* "critical").length, and the summary's {100 - criticalIssues * 10}%
criticalIssues == CountSeverity(validationResults, "critical")
ComplianceScore == 100 - criticalIssues * 10

\* C30 (bound on critical findings): every report has at most 6 critical
\* findings, at most 4 of the manifest check, 1 of the icons check and 1 of
\* the privacy check and none of the permissions and content checks; every
\* critical finding is an error; and the summary's Compliance Score,
\* 100 - 10 * criticalIssues, is never below 40.
C30_CriticalBound ==
  /\ \A r \in reports :
       LET Criticals(category) == CountSeverity(OfCategory(r.findings, category), "critical")
       IN  /\ CountSeverity(r.findings, "critical") <= 6
           /\ Criticals("manifest") <= 4
           /\ Criticals("icons") <= 1
           /\ Criticals("privacy") <= 1
           /\ Criticals("permissions") = 0 /\ Criticals("content") = 0
           /\ \A i \in 1..Len(r.findings) :
                r.findings[i].severity = "critical" => r.findings[i].type = "error"
  /\ criticalIssues <= 6
  /\ ComplianceScore >= 40

\* a report with six critical findings is published: the Compliance Score
\* is 40
C30_Witness ==
  /\ criticalIssues = 6 /\ ComplianceScore = 40
  /\ \E r \in reports : r.findings = validationResults

====
